---- MODULE Spec2Model ----
(***************************************************************************)
(* Layered Minesweeper: the game engine of src/src/App.vue (first script   *)
(* block, lines 1-390).  The session is the set of Vue refs; layer objects *)
(* live in a heap (objs) keyed by object identity, and the session's       *)
(* sequence (layers) holds references to them, so that a layer spliced out *)
(* of the sequence is still there to be inspected, exactly as a caller     *)
(* that kept a reference to it would see it.                               *)
(***************************************************************************)
EXTENDS Integers, Sequences, FiniteSets, TLC

(***************************************************************************)
(* Bounds of the model.  The presets of the program (5x5x2 .. 24x24x7) are *)
(* scaled down to boards of at most MaxW x MaxH cells, at most MaxDepth    *)
(* layers and at most MaxTotal cells in a session.                         *)
(***************************************************************************)
MaxW == 4
MaxH == 2
MaxDepth == 3
MaxTotal == 6
\* the player places at most MaxFlags flags at a time in a session
MaxFlags == 2
\* a second mine density (percent), so that boards with two mines occur
DenseMineDensity == 25

\* the boards on which floodReveal is run on its own have sides of at most
\* FloodMaxSide cells and at most FloodMaxCells cells
FloodMaxSide == 3
FloodMaxCells == 9

\* the initial value of the mineDensity ref, in percent
DefaultMineDensity == 16

VARIABLES
    selectedPreset, \* ref selectedPreset: the preset record chosen
    hasConfigured,  \* ref hasConfigured
    hasWon,         \* ref hasWon
    width,          \* ref width
    height,         \* ref height
    depth,          \* ref depth
    mineDensity,    \* ref mineDensity, in percent
    layers,         \* ref layers: sequence of references (ids) into objs
    objs,           \* heap of Layer objects created by the last newGame
    last            \* name of the operation that produced this state

vars == <<selectedPreset, hasConfigured, hasWon, width, height, depth,
          mineDensity, layers, objs, last>>

Max(a, b) == IF a >= b THEN a ELSE b
Min(a, b) == IF a <= b THEN a ELSE b

\* Math.round(totalCells * density) for a density given in percent
Round(totalCells, pct) == (totalCells * pct + 50) \div 100

(***************************************************************************)
(* Presets: width, height and depth of a game.                             *)
(***************************************************************************)
presets ==
    {p \in [width : 2..MaxW, height : 1..MaxH, depth : 1..MaxDepth] :
        p.width * p.height * p.depth <= MaxTotal}

\* the preset selected at construction ('micro')
micro == [width |-> 2, height |-> 1, depth |-> 2]

Densities == {DefaultMineDensity, DenseMineDensity}

(***************************************************************************)
(* Cells and boards.  cells is the 2D array cells[y][x] (0-based in the    *)
(* code, 1-based sequences here); a cell reference is <<id, x, y>>.        *)
(***************************************************************************)
NewCell(x, y) ==
    [x |-> x, y |-> y, hasMine |-> FALSE, adjacentMines |-> 0,
     isRevealed |-> FALSE, isFlagged |-> FALSE,
     wasTriggered |-> FALSE, isMisflagged |-> FALSE]

\* cells[y]?.[x] is defined
InGrid(cells, x, y) ==
    /\ y >= 0 /\ y < Len(cells)
    /\ x >= 0 /\ x < Len(cells[y + 1])

At(cells, x, y) == cells[y + 1][x + 1]

\* the (dx, dy) pairs in the order of the two nested loops, (0, 0) skipped
Offsets ==
    << <<-1, -1>>, <<0, -1>>, <<1, -1>>,
       <<-1, 0>>,             <<1, 0>>,
       <<-1, 1>>,  <<0, 1>>,  <<1, 1>> >>

\* countAdjacentMines over the four orthogonal neighbours only
countAdjacentMines_orthogonal(cells, x, y) ==
    Cardinality({k \in {2, 4, 5, 7} :
        /\ InGrid(cells, x + Offsets[k][1], y + Offsets[k][2])
        /\ At(cells, x + Offsets[k][1], y + Offsets[k][2]).hasMine})

countAdjacentMines(cells, x, y) ==
    Cardinality({k \in 1..Len(Offsets) :
        /\ InGrid(cells, x + Offsets[k][1], y + Offsets[k][2])
        /\ At(cells, x + Offsets[k][1], y + Offsets[k][2]).hasMine})

\* the coordinates of the neighbours of (x, y), in the order they are pushed
RECURSIVE neighborsFrom(_, _, _, _)
neighborsFrom(cells, x, y, k) ==
    IF k > Len(Offsets) THEN <<>>
    ELSE LET nx == x + Offsets[k][1]
             ny == y + Offsets[k][2]
             rest == neighborsFrom(cells, x, y, k + 1)
         IN  IF InGrid(cells, nx, ny) THEN <<(<<nx, ny>>)>> \o rest ELSE rest

getNeighbors(cells, x, y) == neighborsFrom(cells, x, y, 1)

\* [array[i], array[j]] = [array[j], array[i]], i and j 0-based
Swap(array, i, j) ==
    [array EXCEPT ![i + 1] = array[j + 1], ![j + 1] = array[i + 1]]

\* the rest of the loop of shuffle from index i down to 1: every outcome, j
\* being any of 0..i as Math.random decides
RECURSIVE shuffleFrom(_, _)
shuffleFrom(array, i) ==
    IF i <= 0 THEN {array}
    ELSE UNION {shuffleFrom(Swap(array, i, j), i - 1) : j \in 0..i}

\* the outcomes of shuffle(array)
shuffle(array) == shuffleFrom(array, Len(array) - 1)

\* Array.from({ length: n }, (_, idx) => idx)
IndexArray(n) == [k \in 1..n |-> k - 1]

\* the first `mines` entries of the shuffled index array: distinct indices
ShuffledPrefixes(n, mines) ==
    {s \in [1..mines -> 0..(n - 1)] :
        \A i, j \in 1..mines : i # j => s[i] # s[j]}

createBoard(w, h, mines, positions) ==
    LET mined == [y \in 1..h |-> [x \in 1..w |->
                    [NewCell(x - 1, y - 1) EXCEPT !.hasMine =
                        \E i \in 1..mines :
                            /\ positions[i] % w = x - 1
                            /\ positions[i] \div w = y - 1]]]
    IN  [y \in 1..h |-> [x \in 1..w |->
            IF mined[y][x].hasMine THEN mined[y][x]
            ELSE [mined[y][x] EXCEPT !.adjacentMines =
                    countAdjacentMines(mined, x - 1, y - 1)]]]

\* the mine count without Math.max(1, ...)
mineCountFor_noFloor(w, h, density) ==
    Min(w * h - 1, Round(w * h, density))

mineCountFor(w, h, density) ==
    Max(1, Min(w * h - 1, Round(w * h, density)))

createLayer(index, w, h, density, positions) ==
    [id |-> index,
     cells |-> createBoard(w, h, mineCountFor(w, h, density), positions),
     mines |-> mineCountFor(w, h, density),
     status |-> "playing",
     revealedCount |-> 0,
     flagsUsed |-> 0]

\* layer.flatCells: the same cell objects, row after row, as coordinates
Coords(layer) ==
    {c \in (0..(MaxW + 1)) \X (0..(MaxH + 1)) : InGrid(layer.cells, c[1], c[2])}

flatCells(layer) == {At(layer.cells, c[1], c[2]) : c \in Coords(layer)}

(***************************************************************************)
(* The heap.  A session state is the record                                *)
(*   [layers, objs, hasConfigured, hasWon]                                 *)
(* that the engine's functions read and write.                             *)
(***************************************************************************)
CellAt(heap, ref) == At(heap[ref[1]].cells, ref[2], ref[3])

PutCell(heap, ref, c) ==
    [heap EXCEPT ![ref[1]].cells[ref[3] + 1][ref[2] + 1] = c]

\* layers.value[layerIndex] is defined (layerIndex is 0-based)
HasLayer(seq, layerIndex) == layerIndex >= 0 /\ layerIndex < Len(seq)

LayerRef(seq, layerIndex) == seq[layerIndex + 1]

\* enqueue, forgetting to count the cell it reveals
enqueue_uncounted(st, lid, target) ==
    LET c == CellAt(st.objs, target)
    IN  IF c.isRevealed \/ c.hasMine THEN st
        ELSE [objs |-> PutCell(st.objs, target, [c EXCEPT !.isRevealed = TRUE]),
              queue |-> IF c.adjacentMines = 0
                        THEN Append(st.queue, target) ELSE st.queue]

\* floodReveal's closure enqueue(target); st = [objs, queue], lid = layer
\* enqueue without queue.push: the cell is revealed and not expanded
enqueue_noPush(st, lid, target) ==
    LET c == CellAt(st.objs, target)
    IN  IF c.isRevealed \/ c.hasMine THEN st
        ELSE LET shown == PutCell(st.objs, target, [c EXCEPT !.isRevealed = TRUE])
                 counted == [shown EXCEPT ![lid].revealedCount = @ + 1]
             IN  [objs |-> counted, queue |-> st.queue]

enqueue(st, lid, target) ==
    LET c == CellAt(st.objs, target)
    IN  IF c.isRevealed \/ c.hasMine THEN st
        ELSE LET shown == PutCell(st.objs, target, [c EXCEPT !.isRevealed = TRUE])
                 counted == [shown EXCEPT ![lid].revealedCount = @ + 1]
             IN  [objs |-> counted,
                  queue |-> IF c.adjacentMines = 0
                            THEN Append(st.queue, target) ELSE st.queue]

\* the loop body, pushing every neighbour it reveals, numbered ones too
RECURSIVE visitNeighbors_pushAll(_, _, _)
visitNeighbors_pushAll(st, lid, ns) ==
    IF ns = <<>> THEN st
    ELSE LET neighbor == <<lid, Head(ns)[1], Head(ns)[2]>>
             c == CellAt(st.objs, neighbor)
         IN  IF c.isFlagged \/ c.hasMine \/ c.isRevealed
             THEN visitNeighbors_pushAll(st, lid, Tail(ns))
             ELSE visitNeighbors_pushAll(
                    [objs |-> [PutCell(st.objs, neighbor,
                                       [c EXCEPT !.isRevealed = TRUE])
                                 EXCEPT ![lid].revealedCount = @ + 1],
                     queue |-> Append(st.queue, neighbor)],
                    lid, Tail(ns))

\* the loop body, skipping mines but not flagged cells
RECURSIVE visitNeighbors_ignoreFlags(_, _, _)
visitNeighbors_ignoreFlags(st, lid, ns) ==
    IF ns = <<>> THEN st
    ELSE LET neighbor == <<lid, Head(ns)[1], Head(ns)[2]>>
             c == CellAt(st.objs, neighbor)
         IN  IF c.hasMine \/ c.isRevealed
             THEN visitNeighbors_ignoreFlags(st, lid, Tail(ns))
             ELSE visitNeighbors_ignoreFlags(
                    [objs |-> [PutCell(st.objs, neighbor,
                                       [c EXCEPT !.isRevealed = TRUE])
                                 EXCEPT ![lid].revealedCount = @ + 1],
                     queue |-> IF c.adjacentMines = 0
                               THEN Append(st.queue, neighbor)
                               ELSE st.queue],
                    lid, Tail(ns))

\* the loop body with `break` in the place of `continue`
visitNeighbors_breaks(st, lid, ns) ==
    LET RECURSIVE visit(_, _)
        visit(t, rest) ==
            IF rest = <<>> THEN t
            ELSE LET neighbor == <<lid, Head(rest)[1], Head(rest)[2]>>
                     c == CellAt(t.objs, neighbor)
                 IN  IF c.isFlagged \/ c.hasMine THEN t
                     ELSE IF ~c.isRevealed
                     THEN visit([objs |-> [PutCell(t.objs, neighbor,
                                                [c EXCEPT !.isRevealed = TRUE])
                                            EXCEPT ![lid].revealedCount = @ + 1],
                                 queue |-> IF c.adjacentMines = 0
                                           THEN Append(t.queue, neighbor)
                                           ELSE t.queue],
                                Tail(rest))
                     ELSE visit(t, Tail(rest))
    IN  visit(st, ns)

\* the body of the for loop over getNeighbors(layer.cells, current)
RECURSIVE visitNeighbors(_, _, _)
visitNeighbors(st, lid, ns) ==
    IF ns = <<>> THEN st
    ELSE LET neighbor == <<lid, Head(ns)[1], Head(ns)[2]>>
             c == CellAt(st.objs, neighbor)
         IN  IF c.isFlagged \/ c.hasMine
             THEN visitNeighbors(st, lid, Tail(ns))
             ELSE IF ~c.isRevealed
             THEN LET shown == PutCell(st.objs, neighbor,
                                       [c EXCEPT !.isRevealed = TRUE])
                      counted == [shown EXCEPT ![lid].revealedCount = @ + 1]
                  IN  visitNeighbors(
                          [objs |-> counted,
                           queue |-> IF c.adjacentMines = 0
                                     THEN Append(st.queue, neighbor)
                                     ELSE st.queue],
                          lid, Tail(ns))
             ELSE visitNeighbors(st, lid, Tail(ns))

\* the while loop: queue.shift(), then the neighbours of the shifted cell
RECURSIVE drainQueue(_, _)
drainQueue(st, lid) ==
    IF st.queue = <<>> THEN st
    ELSE LET current == Head(st.queue)
         IN  drainQueue(
                 visitNeighbors([st EXCEPT !.queue = Tail(@)], lid,
                     getNeighbors(st.objs[lid].cells, current[2], current[3])),
                 lid)

floodReveal(heap, lid, start) ==
    drainQueue(enqueue([objs |-> heap, queue |-> <<>>], lid, start), lid).objs

\* floodReveal once more, loop iteration by loop iteration, with a record of
\* the run: `pushed` lists the cells in the order of queue.push, `counted`
\* the cells in the order of revealedCount++, `iterations` is the number of
\* passes through the while loop.
enqueueTraced(st, lid, target) ==
    LET c == CellAt(st.objs, target)
    IN  IF c.isRevealed \/ c.hasMine THEN st
        ELSE LET shown == PutCell(st.objs, target, [c EXCEPT !.isRevealed = TRUE])
                 counted == [shown EXCEPT ![lid].revealedCount = @ + 1]
             IN  [st EXCEPT
                    !.objs = counted,
                    !.counted = Append(@, target),
                    !.queue = IF c.adjacentMines = 0
                              THEN Append(@, target) ELSE @,
                    !.pushed = IF c.adjacentMines = 0
                               THEN Append(@, target) ELSE @]

\* the loop body with queue.push moved out of the isRevealed test
RECURSIVE visitNeighborsTraced_repush(_, _, _)
visitNeighborsTraced_repush(st, lid, ns) ==
    IF ns = <<>> THEN st
    ELSE LET neighbor == <<lid, Head(ns)[1], Head(ns)[2]>>
             c == CellAt(st.objs, neighbor)
             shown == PutCell(st.objs, neighbor, [c EXCEPT !.isRevealed = TRUE])
             counted == [shown EXCEPT ![lid].revealedCount = @ + 1]
             seen == IF c.isRevealed THEN st
                     ELSE [st EXCEPT !.objs = counted,
                                     !.counted = Append(@, neighbor)]
         IN  IF c.isFlagged \/ c.hasMine
             THEN visitNeighborsTraced_repush(st, lid, Tail(ns))
             ELSE visitNeighborsTraced_repush(
                    [seen EXCEPT
                        !.queue = IF c.adjacentMines = 0
                                  THEN Append(@, neighbor) ELSE @,
                        !.pushed = IF c.adjacentMines = 0
                                   THEN Append(@, neighbor) ELSE @],
                    lid, Tail(ns))

RECURSIVE visitNeighborsTraced(_, _, _)
visitNeighborsTraced(st, lid, ns) ==
    IF ns = <<>> THEN st
    ELSE LET neighbor == <<lid, Head(ns)[1], Head(ns)[2]>>
             c == CellAt(st.objs, neighbor)
         IN  IF c.isFlagged \/ c.hasMine
             THEN visitNeighborsTraced(st, lid, Tail(ns))
             ELSE IF ~c.isRevealed
             THEN LET shown == PutCell(st.objs, neighbor,
                                       [c EXCEPT !.isRevealed = TRUE])
                      counted == [shown EXCEPT ![lid].revealedCount = @ + 1]
                  IN  visitNeighborsTraced(
                          [st EXCEPT
                            !.objs = counted,
                            !.counted = Append(@, neighbor),
                            !.queue = IF c.adjacentMines = 0
                                      THEN Append(@, neighbor) ELSE @,
                            !.pushed = IF c.adjacentMines = 0
                                       THEN Append(@, neighbor) ELSE @],
                          lid, Tail(ns))
             ELSE visitNeighborsTraced(st, lid, Tail(ns))

\* at most `fuel` iterations of the while loop
RECURSIVE drainQueueTraced(_, _, _)
drainQueueTraced(st, lid, fuel) ==
    IF st.queue = <<>> \/ fuel = 0 THEN st
    ELSE LET current == Head(st.queue)
         IN  drainQueueTraced(
                 visitNeighborsTraced(
                     [st EXCEPT !.queue = Tail(@), !.iterations = @ + 1], lid,
                     getNeighbors(st.objs[lid].cells, current[2], current[3])),
                 lid, fuel - 1)

\* the run of floodReveal(layer, start), cut after `fuel` iterations
floodRun(heap, lid, start, fuel) ==
    drainQueueTraced(
        enqueueTraced([objs |-> heap, queue |-> <<>>, pushed |-> <<>>,
                       counted |-> <<>>, iterations |-> 0], lid, start),
        lid, fuel)

\* revealAllMines, marking every flagged cell as misflagged
revealAllMines_misflagsMines(layer) ==
    [layer EXCEPT !.cells =
        [y \in 1..Len(layer.cells) |-> [x \in 1..Len(layer.cells[y]) |->
            LET c == layer.cells[y][x]
                shown == IF c.hasMine THEN [c EXCEPT !.isRevealed = TRUE] ELSE c
            IN  IF c.isFlagged THEN [shown EXCEPT !.isMisflagged = TRUE]
                ELSE shown]]]

\* revealAllMines, revealing every cell of the layer
revealAllMines_everyCell(layer) ==
    [layer EXCEPT !.cells =
        [y \in 1..Len(layer.cells) |-> [x \in 1..Len(layer.cells[y]) |->
            [layer.cells[y][x] EXCEPT !.isRevealed = TRUE]]]]

\* revealAllMines, assigning isRevealed = hasMine to every cell
revealAllMines_assign(layer) ==
    [layer EXCEPT !.cells =
        [y \in 1..Len(layer.cells) |-> [x \in 1..Len(layer.cells[y]) |->
            LET c == layer.cells[y][x]
            IN  [c EXCEPT !.isRevealed = c.hasMine,
                          !.isMisflagged = @ \/ (~c.hasMine /\ c.isFlagged)]]]]

revealAllMines(layer) ==
    [layer EXCEPT !.cells =
        [y \in 1..Len(layer.cells) |-> [x \in 1..Len(layer.cells[y]) |->
            LET c == layer.cells[y][x]
            IN  IF c.hasMine THEN [c EXCEPT !.isRevealed = TRUE]
                ELSE IF c.isFlagged THEN [c EXCEPT !.isMisflagged = TRUE]
                ELSE c]]]

\* the index of the object `id` in the sequence, -1 when it is not in it
IndexOf(seq, id) ==
    IF \E k \in 1..Len(seq) : seq[k] = id
    THEN (CHOOSE k \in 1..Len(seq) : seq[k] = id) - 1
    ELSE -1

\* endGame losing the triggered layer only
endGame_triggeredLayerOnly(S, triggeredLayerIndex, triggeredCell) ==
    LET marked == PutCell(S.objs, triggeredCell,
                    [CellAt(S.objs, triggeredCell) EXCEPT
                        !.wasTriggered = TRUE, !.isRevealed = TRUE])
    IN  [S EXCEPT !.objs =
            [id \in DOMAIN marked |->
                IF IndexOf(S.layers, id) # triggeredLayerIndex THEN marked[id]
                ELSE revealAllMines([marked[id] EXCEPT !.status = "lost"])]]

\* endGame counting the triggered cell in revealedCount
endGame_countsTriggered(S, triggeredLayerIndex, triggeredCell) ==
    LET marked == PutCell(S.objs, triggeredCell,
                    [CellAt(S.objs, triggeredCell) EXCEPT
                        !.wasTriggered = TRUE, !.isRevealed = TRUE])
    IN  [S EXCEPT !.objs =
            [id \in DOMAIN marked |->
                LET index == IndexOf(S.layers, id)
                IN  IF index = -1 THEN marked[id]
                    ELSE IF marked[id].status = "lost"
                            /\ index # triggeredLayerIndex
                    THEN marked[id]
                    ELSE revealAllMines([marked[id] EXCEPT
                            !.status = "lost",
                            !.revealedCount =
                                IF index = triggeredLayerIndex THEN @ + 1 ELSE @])]]

endGame(S, triggeredLayerIndex, triggeredCell) ==
    LET marked == PutCell(S.objs, triggeredCell,
                    [CellAt(S.objs, triggeredCell) EXCEPT
                        !.wasTriggered = TRUE, !.isRevealed = TRUE])
    IN  [S EXCEPT !.objs =
            [id \in DOMAIN marked |->
                LET index == IndexOf(S.layers, id)
                IN  IF index = -1 THEN marked[id]
                    ELSE IF marked[id].status = "lost"
                            /\ index # triggeredLayerIndex
                    THEN marked[id]
                    ELSE revealAllMines([marked[id] EXCEPT !.status = "lost"])]]

\* removal that moves the last layer into the place of the removed one
Splice_swapRemove(seq, layerIndex) ==
    [k \in 1..(Len(seq) - 1) |->
        IF k = layerIndex + 1 THEN seq[Len(seq)] ELSE seq[k]]

\* seq.splice(layerIndex, 1)
Splice(seq, layerIndex) ==
    [k \in 1..(Len(seq) - 1) |->
        IF k <= layerIndex THEN seq[k] ELSE seq[k + 1]]

solved(layer) ==
    \A c \in flatCells(layer) :
        IF c.hasMine THEN c.isFlagged ELSE ~c.isFlagged

\* checkLayerCleared leaving hasWon alone when the sequence becomes empty
checkLayerCleared_forgetsWon(S, layerIndex) ==
    IF ~HasLayer(S.layers, layerIndex) THEN S
    ELSE LET layer == S.objs[LayerRef(S.layers, layerIndex)]
         IN  IF layer.flagsUsed # layer.mines THEN S
             ELSE IF ~solved(layer) THEN S
             ELSE LET rest == Splice(S.layers, layerIndex)
                  IN  IF Len(rest) = 0
                      THEN [S EXCEPT !.layers = rest,
                                     !.hasConfigured = FALSE]
                      ELSE [S EXCEPT !.layers = rest]

\* checkLayerCleared declaring the session won at every removal
checkLayerCleared_wonOnAnyClear(S, layerIndex) ==
    IF ~HasLayer(S.layers, layerIndex) THEN S
    ELSE LET layer == S.objs[LayerRef(S.layers, layerIndex)]
         IN  IF layer.flagsUsed # layer.mines THEN S
             ELSE IF ~solved(layer) THEN S
             ELSE [S EXCEPT !.layers = Splice(S.layers, layerIndex),
                            !.hasConfigured = FALSE,
                            !.hasWon = TRUE]

\* checkLayerCleared without the full match: flagsUsed === mines is enough
checkLayerCleared_countOnly(S, layerIndex) ==
    IF ~HasLayer(S.layers, layerIndex) THEN S
    ELSE LET layer == S.objs[LayerRef(S.layers, layerIndex)]
         IN  IF layer.flagsUsed # layer.mines THEN S
             ELSE LET rest == Splice(S.layers, layerIndex)
                  IN  IF Len(rest) = 0
                      THEN [S EXCEPT !.layers = rest,
                                     !.hasConfigured = FALSE,
                                     !.hasWon = TRUE]
                      ELSE [S EXCEPT !.layers = rest]

\* checkLayerCleared setting the status of the layer it removes to won
checkLayerCleared_marksWon(S, layerIndex) ==
    IF ~HasLayer(S.layers, layerIndex) THEN S
    ELSE LET lid == LayerRef(S.layers, layerIndex)
             layer == S.objs[lid]
         IN  IF layer.flagsUsed # layer.mines THEN S
             ELSE IF ~solved(layer) THEN S
             ELSE LET rest == Splice(S.layers, layerIndex)
                      won == [S.objs EXCEPT ![lid].status = "won"]
                  IN  IF Len(rest) = 0
                      THEN [S EXCEPT !.layers = rest,
                                     !.objs = won,
                                     !.hasConfigured = FALSE,
                                     !.hasWon = TRUE]
                      ELSE [S EXCEPT !.layers = rest, !.objs = won]

checkLayerCleared(S, layerIndex) ==
    IF ~HasLayer(S.layers, layerIndex) THEN S
    ELSE LET layer == S.objs[LayerRef(S.layers, layerIndex)]
         IN  IF layer.flagsUsed # layer.mines THEN S
             ELSE IF ~solved(layer) THEN S
             ELSE LET rest == Splice(S.layers, layerIndex)
                  IN  IF Len(rest) = 0
                      THEN [S EXCEPT !.layers = rest,
                                     !.hasConfigured = FALSE,
                                     !.hasWon = TRUE]
                      ELSE [S EXCEPT !.layers = rest]

\* the for loop of checkWin without `layer.flagsUsed += 1`
autoFlag_uncounted(layer) ==
    [layer EXCEPT
        !.cells = [y \in 1..Len(layer.cells) |->
                    [x \in 1..Len(layer.cells[y]) |->
                        LET c == layer.cells[y][x]
                        IN  IF c.hasMine /\ ~c.isFlagged
                            THEN [c EXCEPT !.isFlagged = TRUE] ELSE c]]]

\* the for loop of checkWin: every unflagged mine gets a flag
autoFlag(layer) ==
    LET unflagged == {c \in flatCells(layer) : c.hasMine /\ ~c.isFlagged}
    IN  [layer EXCEPT
            !.cells = [y \in 1..Len(layer.cells) |->
                        [x \in 1..Len(layer.cells[y]) |->
                            LET c == layer.cells[y][x]
                            IN  IF c.hasMine /\ ~c.isFlagged
                                THEN [c EXCEPT !.isFlagged = TRUE] ELSE c]],
            !.flagsUsed = @ + Cardinality(unflagged)]

\* checkWin calling checkLayerCleared before the loop that flags the mines
checkWin_clearsFirst(S, layerIndex) ==
    IF ~HasLayer(S.layers, layerIndex) THEN S
    ELSE LET lid == LayerRef(S.layers, layerIndex)
             layer == S.objs[lid]
             safeCells == Cardinality(flatCells(layer)) - layer.mines
         IN  IF layer.revealedCount >= safeCells
             THEN LET cleared == checkLayerCleared(
                                    [S EXCEPT !.objs[lid].status = "won"],
                                    layerIndex)
                  IN  [cleared EXCEPT !.objs[lid] = autoFlag(@)]
             ELSE S

\* checkWin without the call of checkLayerCleared
checkWin_noClear(S, layerIndex) ==
    IF ~HasLayer(S.layers, layerIndex) THEN S
    ELSE LET lid == LayerRef(S.layers, layerIndex)
             layer == S.objs[lid]
             safeCells == Cardinality(flatCells(layer)) - layer.mines
         IN  IF layer.revealedCount >= safeCells
             THEN [S EXCEPT !.objs[lid] =
                         autoFlag([layer EXCEPT !.status = "won"])]
             ELSE S

checkWin(S, layerIndex) ==
    IF ~HasLayer(S.layers, layerIndex) THEN S
    ELSE LET lid == LayerRef(S.layers, layerIndex)
             layer == S.objs[lid]
             safeCells == Cardinality(flatCells(layer)) - layer.mines
         IN  IF layer.revealedCount >= safeCells
             THEN checkLayerCleared(
                     [S EXCEPT !.objs[lid] =
                         autoFlag([layer EXCEPT !.status = "won"])],
                     layerIndex)
             ELSE S

\* revealCell without the status guard
revealCell_ignoresStatus(S, layerIndex, cell) ==
    IF ~HasLayer(S.layers, layerIndex) THEN S
    ELSE LET lid == LayerRef(S.layers, layerIndex)
             c == CellAt(S.objs, cell)
         IN  IF c.isFlagged \/ c.isRevealed THEN S
             ELSE IF c.hasMine THEN endGame(S, layerIndex, cell)
             ELSE checkWin([S EXCEPT !.objs = floodReveal(S.objs, lid, cell)],
                           layerIndex)

\* revealCell without the isFlagged guard
revealCell_ignoresFlag(S, layerIndex, cell) ==
    IF ~HasLayer(S.layers, layerIndex) THEN S
    ELSE LET lid == LayerRef(S.layers, layerIndex)
             c == CellAt(S.objs, cell)
         IN  IF S.objs[lid].status # "playing" THEN S
             ELSE IF c.isRevealed THEN S
             ELSE IF c.hasMine THEN endGame(S, layerIndex, cell)
             ELSE checkWin([S EXCEPT !.objs = floodReveal(S.objs, lid, cell)],
                           layerIndex)

revealCell(S, layerIndex, cell) ==
    IF ~HasLayer(S.layers, layerIndex) THEN S
    ELSE LET lid == LayerRef(S.layers, layerIndex)
             c == CellAt(S.objs, cell)
         IN  IF S.objs[lid].status # "playing" THEN S
             ELSE IF c.isFlagged \/ c.isRevealed THEN S
             ELSE IF c.hasMine THEN endGame(S, layerIndex, cell)
             ELSE checkWin([S EXCEPT !.objs = floodReveal(S.objs, lid, cell)],
                           layerIndex)

\* toggleFlag testing `layer && layer.status !== 'playing'`: with no layer
\* the cell is toggled before layer.flagsUsed throws
toggleFlag_noLayerGuard(S, layerIndex, cell) ==
    IF ~HasLayer(S.layers, layerIndex)
    THEN IF cell[1] \notin DOMAIN S.objs \/ CellAt(S.objs, cell).isRevealed THEN S
         ELSE [S EXCEPT !.objs = PutCell(S.objs, cell,
                    [CellAt(S.objs, cell) EXCEPT !.isFlagged = ~@])]
    ELSE LET lid == LayerRef(S.layers, layerIndex)
             c == CellAt(S.objs, cell)
         IN  IF S.objs[lid].status # "playing" THEN S
             ELSE IF c.isRevealed THEN S
             ELSE LET flipped == PutCell(S.objs, cell,
                                    [c EXCEPT !.isFlagged = ~c.isFlagged])
                      counted == [flipped EXCEPT ![lid].flagsUsed =
                                    @ + (IF ~c.isFlagged THEN 1 ELSE -1)]
                  IN  checkLayerCleared([S EXCEPT !.objs = counted], layerIndex)

\* toggleFlag without the isRevealed guard
toggleFlag_flagsRevealed(S, layerIndex, cell) ==
    IF ~HasLayer(S.layers, layerIndex) THEN S
    ELSE LET lid == LayerRef(S.layers, layerIndex)
             c == CellAt(S.objs, cell)
         IN  IF S.objs[lid].status # "playing" THEN S
             ELSE LET flipped == PutCell(S.objs, cell,
                                    [c EXCEPT !.isFlagged = ~c.isFlagged])
                      counted == [flipped EXCEPT ![lid].flagsUsed =
                                    @ + (IF ~c.isFlagged THEN 1 ELSE -1)]
                  IN  checkLayerCleared([S EXCEPT !.objs = counted], layerIndex)

\* toggleFlag without the call of checkLayerCleared
toggleFlag_noClear(S, layerIndex, cell) ==
    IF ~HasLayer(S.layers, layerIndex) THEN S
    ELSE LET lid == LayerRef(S.layers, layerIndex)
             c == CellAt(S.objs, cell)
         IN  IF S.objs[lid].status # "playing" THEN S
             ELSE IF c.isRevealed THEN S
             ELSE LET flipped == PutCell(S.objs, cell,
                                    [c EXCEPT !.isFlagged = ~c.isFlagged])
                  IN  [S EXCEPT !.objs = [flipped EXCEPT ![lid].flagsUsed =
                                    @ + (IF ~c.isFlagged THEN 1 ELSE -1)]]

\* toggleFlag counting a flag up whichever way it toggles
toggleFlag_countsUp(S, layerIndex, cell) ==
    IF ~HasLayer(S.layers, layerIndex) THEN S
    ELSE LET lid == LayerRef(S.layers, layerIndex)
             c == CellAt(S.objs, cell)
         IN  IF S.objs[lid].status # "playing" THEN S
             ELSE IF c.isRevealed THEN S
             ELSE LET flipped == PutCell(S.objs, cell,
                                    [c EXCEPT !.isFlagged = ~c.isFlagged])
                      counted == [flipped EXCEPT ![lid].flagsUsed = @ + 1]
                  IN  checkLayerCleared([S EXCEPT !.objs = counted], layerIndex)

\* toggleFlag without the `layer.status !== 'playing'` guard
toggleFlag_ignoresStatus(S, layerIndex, cell) ==
    IF ~HasLayer(S.layers, layerIndex) THEN S
    ELSE LET lid == LayerRef(S.layers, layerIndex)
             c == CellAt(S.objs, cell)
         IN  IF c.isRevealed THEN S
             ELSE LET flipped == PutCell(S.objs, cell,
                                    [c EXCEPT !.isFlagged = ~c.isFlagged])
                      counted == [flipped EXCEPT ![lid].flagsUsed =
                                    @ + (IF ~c.isFlagged THEN 1 ELSE -1)]
                  IN  checkLayerCleared([S EXCEPT !.objs = counted], layerIndex)

toggleFlag(S, layerIndex, cell) ==
    IF ~HasLayer(S.layers, layerIndex) THEN S
    ELSE LET lid == LayerRef(S.layers, layerIndex)
             c == CellAt(S.objs, cell)
         IN  IF S.objs[lid].status # "playing" THEN S
             ELSE IF c.isRevealed THEN S
             ELSE LET flipped == PutCell(S.objs, cell,
                                    [c EXCEPT !.isFlagged = ~c.isFlagged])
                      counted == [flipped EXCEPT ![lid].flagsUsed =
                                    @ + (IF ~c.isFlagged THEN 1 ELSE -1)]
                  IN  checkLayerCleared([S EXCEPT !.objs = counted], layerIndex)

overallStatus ==
    IF hasWon THEN "won"
    ELSE IF \E k \in 1..Len(layers) : objs[layers[k]].status = "lost" THEN "lost"
    ELSE IF hasConfigured THEN "playing" ELSE "idle"

totalMines ==
    LET RECURSIVE sum(_)
        sum(k) == IF k = 0 THEN 0 ELSE sum(k - 1) + objs[layers[k]].mines
    IN  sum(Len(layers))

totalFlags ==
    LET RECURSIVE sum(_)
        sum(k) == IF k = 0 THEN 0 ELSE sum(k - 1) + objs[layers[k]].flagsUsed
    IN  sum(Len(layers))

(***************************************************************************)
(* The state machine.                                                      *)
(***************************************************************************)
Session ==
    [layers |-> layers, objs |-> objs,
     hasConfigured |-> hasConfigured, hasWon |-> hasWon]

Commit(T) ==
    /\ layers' = T.layers
    /\ objs' = T.objs
    /\ hasConfigured' = T.hasConfigured
    /\ hasWon' = T.hasWon

Init ==
    /\ selectedPreset = micro
    /\ hasConfigured = FALSE
    /\ hasWon = FALSE
    /\ width = micro.width
    /\ height = micro.height
    /\ depth = micro.depth
    /\ mineDensity = DefaultMineDensity
    /\ layers = <<>>
    /\ objs = <<>>
    /\ last = "init"

\* newGame with the refs w, h, d: one shuffle per layer
newGame(w, h, d) ==
    \E positions \in [0..(d - 1) ->
                        ShuffledPrefixes(w * h, mineCountFor(w, h, mineDensity))] :
        /\ objs' = [index \in 0..(d - 1) |->
                        createLayer(index, w, h, mineDensity, positions[index])]
        /\ layers' = [k \in 1..d |-> k - 1]

\* the "Start Game" and "Play Again" buttons: setup and victory sections
StartGame ==
    /\ ~hasConfigured
    /\ hasWon' = FALSE
    /\ hasConfigured' = TRUE
    /\ newGame(width, height, depth)
    /\ last' = "startGame"
    /\ UNCHANGED <<selectedPreset, width, height, depth, mineDensity>>

\* the "New Game" and "Back to Settings" buttons: game and victory sections
ResetGame ==
    /\ hasConfigured \/ hasWon
    /\ hasConfigured' = FALSE
    /\ hasWon' = FALSE
    /\ layers' = <<>>
    /\ objs' = <<>>
    /\ last' = "resetGame"
    /\ UNCHANGED <<selectedPreset, width, height, depth, mineDensity>>

\* the watcher of selectedPreset: applyPreset, then newGame when configured;
\* the select element is in the setup section
SelectPreset(key) ==
    /\ ~hasConfigured /\ ~hasWon
    /\ key # selectedPreset
    /\ selectedPreset' = key
    /\ width' = key.width
    /\ height' = key.height
    /\ depth' = key.depth
    /\ IF hasConfigured
       THEN newGame(key.width, key.height, key.depth)
       ELSE UNCHANGED <<layers, objs>>
    /\ last' = "selectPreset"
    /\ UNCHANGED <<hasConfigured, hasWon, mineDensity>>

\* the exposed mineDensity ref is written from outside
SetMineDensity(density) ==
    /\ ~hasConfigured /\ ~hasWon
    /\ density # mineDensity
    /\ mineDensity' = density
    /\ last' = "setMineDensity"
    /\ UNCHANGED <<selectedPreset, hasConfigured, hasWon, width, height, depth,
                   layers, objs>>

\* the cells whose button dispatches to layerIndex.  With no such layer the
\* call comes from a caller holding a stale index: the cell it passes is a
\* cell of a layer removed from the sequence, or no cell object at all
NoCell == <<-1, 0, 0>>

Buttons(layerIndex) ==
    IF HasLayer(layers, layerIndex)
    THEN {<<LayerRef(layers, layerIndex), c[1], c[2]>> :
            c \in Coords(objs[LayerRef(layers, layerIndex)])}
    ELSE {NoCell} \cup
         UNION {{<<id, c[1], c[2]>> : c \in Coords(objs[id])} :
                    id \in {i \in DOMAIN objs :
                                \A k \in 1..Len(layers) : layers[k] # i}}

LayerIndexes == 0..MaxDepth

RevealCell(layerIndex, cell) ==
    /\ Commit(revealCell(Session, layerIndex, cell))
    /\ last' = "revealCell"
    /\ UNCHANGED <<selectedPreset, width, height, depth, mineDensity>>

ToggleFlag(layerIndex, cell) ==
    /\ (cell # NoCell /\ ~CellAt(objs, cell).isFlagged) => totalFlags < MaxFlags
    /\ Commit(toggleFlag(Session, layerIndex, cell))
    /\ last' = "toggleFlag"
    /\ UNCHANGED <<selectedPreset, width, height, depth, mineDensity>>

Next ==
    \/ StartGame
    \/ ResetGame
    \/ \E key \in presets : SelectPreset(key)
    \/ \E density \in Densities : SetMineDensity(density)
    \/ \E layerIndex \in LayerIndexes : \E cell \in Buttons(layerIndex) :
            RevealCell(layerIndex, cell)
    \/ \E layerIndex \in LayerIndexes : \E cell \in Buttons(layerIndex) :
            ToggleFlag(layerIndex, cell)

Spec == Init /\ [][Next]_vars

\* a caller that calls toggleFlag(layerIndex, cell) twice in a row, with the
\* same cell object both times
ToggleFlagTwice(layerIndex, cell) ==
    /\ (cell # NoCell /\ ~CellAt(objs, cell).isFlagged) => totalFlags < MaxFlags
    /\ Commit(toggleFlag(toggleFlag(Session, layerIndex, cell), layerIndex, cell))
    /\ last' = "toggleFlagTwice"
    /\ UNCHANGED <<selectedPreset, width, height, depth, mineDensity>>

NextTwice ==
    \/ Next
    \/ \E layerIndex \in LayerIndexes : \E cell \in Buttons(layerIndex) :
            ToggleFlagTwice(layerIndex, cell)

SpecTwice == Init /\ [][NextTwice]_vars

\* Board generation on its own: the refs hold any width, height and density
\* (in percent) of a small board, and one layer is created from them with
\* the shuffle of createBoard taking any of its outcomes.
BoardDensities == {10 * k : k \in 1..9}

InitBoard ==
    /\ selectedPreset = micro
    /\ hasConfigured = FALSE
    /\ hasWon = FALSE
    /\ width \in 1..MaxW
    /\ height \in 1..(MaxH + 1)
    /\ width * height >= 2 /\ width * height <= MaxTotal
    /\ depth = 1
    /\ mineDensity \in BoardDensities
    /\ layers = <<>>
    /\ objs = <<>>
    /\ last = "init"

CreateBoard ==
    /\ last = "init"
    /\ \E positions \in shuffle(IndexArray(width * height)) :
            objs' = [index \in {0} |->
                        createLayer(index, width, height, mineDensity, positions)]
    /\ layers' = <<0>>
    /\ last' = "createBoard"
    /\ UNCHANGED <<selectedPreset, hasConfigured, hasWon, width, height, depth,
                   mineDensity>>

NextBoard == CreateBoard

SpecBoard == InitBoard /\ [][NextBoard]_vars

\* floodReveal on its own: one layer of up to FloodMaxSide x FloodMaxSide
\* cells with any placement of its mines, on which the player has placed up
\* to MaxFlags flags without clearing it, and then reveals cell after cell.
withFlags(layer, flags) ==
    [layer EXCEPT
        !.cells = [y \in 1..Len(layer.cells) |->
                    [x \in 1..Len(layer.cells[y]) |->
                        [layer.cells[y][x] EXCEPT
                            !.isFlagged = <<x - 1, y - 1>> \in flags]]],
        !.flagsUsed = Cardinality(flags)]

InitFlood ==
    /\ selectedPreset = micro
    /\ hasConfigured = TRUE
    /\ hasWon = FALSE
    /\ width \in 2..FloodMaxSide
    /\ height \in 1..FloodMaxSide
    /\ width * height <= FloodMaxCells
    /\ depth = 1
    /\ mineDensity = DefaultMineDensity
    /\ layers = <<0>>
    /\ \E positions \in ShuffledPrefixes(width * height,
                            mineCountFor(width, height, mineDensity)) :
        \E flags \in SUBSET ((0..(width - 1)) \X (0..(height - 1))) :
            LET layer == createLayer(0, width, height, mineDensity, positions)
            IN  /\ Cardinality(flags) <= MaxFlags
                /\ flags # {c \in Coords(layer) : At(layer.cells, c[1], c[2]).hasMine}
                /\ objs = [index \in {0} |-> withFlags(layer, flags)]
    /\ last = "init"

NextFlood == \E cell \in Buttons(0) : RevealCell(0, cell)

SpecFlood == InitFlood /\ [][NextFlood]_vars

(***************************************************************************)
(* Vocabulary of the properties.                                           *)
(***************************************************************************)
Ids == DOMAIN objs

InSession(id) == \E k \in 1..Len(layers) : layers[k] = id

Refs(id) == {<<id, c[1], c[2]>> : c \in Coords(objs[id])}

Mines(layer) == {c \in Coords(layer) : At(layer.cells, c[1], c[2]).hasMine}

Flagged(layer) == {c \in Coords(layer) : At(layer.cells, c[1], c[2]).isFlagged}

Revealed(layer) == {c \in Coords(layer) : At(layer.cells, c[1], c[2]).isRevealed}

Triggered(layer) ==
    {c \in Coords(layer) : At(layer.cells, c[1], c[2]).wasTriggered}

ZeroCells(layer) ==
    {c \in Coords(layer) :
        /\ ~At(layer.cells, c[1], c[2]).hasMine
        /\ At(layer.cells, c[1], c[2]).adjacentMines = 0}

Abs(n) == IF n < 0 THEN -n ELSE n

\* Chebyshev distance 1
Adjacent(a, b) ==
    /\ a # b
    /\ Abs(a[1] - b[1]) <= 1
    /\ Abs(a[2] - b[2]) <= 1

\* the step is a game operation on the layers of the running game
Played == last' \in {"revealCell", "toggleFlag"}

\* revealCell(layerIndex, cell) gets past its two guards
Accepts(layerIndex, cell) ==
    /\ HasLayer(layers, layerIndex)
    /\ objs[LayerRef(layers, layerIndex)].status = "playing"
    /\ ~CellAt(objs, cell).isFlagged
    /\ ~CellAt(objs, cell).isRevealed

Detonates(layerIndex, cell) ==
    Accepts(layerIndex, cell) /\ CellAt(objs, cell).hasMine

Floods(layerIndex, cell) ==
    Accepts(layerIndex, cell) /\ ~CellAt(objs, cell).hasMine

(***************************************************************************)
(* Mutual exclusion of isRevealed and isFlagged.                           *)
(***************************************************************************)
\* C1 (as stated): no cell of any layer, in the session or removed from it,
\* is both revealed and flagged.
C1_NoCellRevealedAndFlagged ==
    \A id \in Ids : \A ref \in Refs(id) :
        ~(CellAt(objs, ref).isRevealed /\ CellAt(objs, ref).isFlagged)

\* C1 (amended): a cell that is both revealed and flagged is a mine cell of a
\* layer whose status is lost; no non-mine cell and no cell of a playing, won
\* or removed-while-playing layer is ever both.
C1_RevealedAndFlaggedOnlyLostMines ==
    \A id \in Ids : \A ref \in Refs(id) :
        (CellAt(objs, ref).isRevealed /\ CellAt(objs, ref).isFlagged)
            => (CellAt(objs, ref).hasMine /\ objs[id].status = "lost")

\* a mine flagged before the loss, revealed by it, on a layer that also has
\* revealed safe cells and a hidden flagged one
C1_Witness ==
    \E id \in Ids :
        /\ objs[id].status = "lost"
        /\ \E ref \in Refs(id) :
            /\ CellAt(objs, ref).hasMine
            /\ CellAt(objs, ref).isRevealed
            /\ CellAt(objs, ref).isFlagged
        /\ \E ref \in Refs(id) :
            ~CellAt(objs, ref).hasMine /\ CellAt(objs, ref).isRevealed
        /\ \E ref \in Refs(id) :
            ~CellAt(objs, ref).hasMine /\ CellAt(objs, ref).isFlagged

(***************************************************************************)
(* Layer independence on a loss.                                           *)
(***************************************************************************)
\* C2: when revealCell detonates a mine on layer A, every other layer B of
\* the session keeps its status, and every cell of B keeps isRevealed and
\* isFlagged.
C2_OtherLayersUntouchedByLoss ==
    [][last' = "revealCell" => \A layerIndex \in LayerIndexes : \A cell \in Buttons(layerIndex) :
        (Detonates(layerIndex, cell) /\ RevealCell(layerIndex, cell)) =>
            \A k \in 1..Len(layers) :
                (k - 1 # layerIndex) =>
                    /\ objs'[layers[k]].status = objs[layers[k]].status
                    /\ \A ref \in Refs(layers[k]) :
                        /\ CellAt(objs', ref).isRevealed
                                = CellAt(objs, ref).isRevealed
                        /\ CellAt(objs', ref).isFlagged
                                = CellAt(objs, ref).isFlagged]_vars

(***************************************************************************)
(* The win path.                                                           *)
(***************************************************************************)
AllSafeRevealed(layer) == Coords(layer) \ Mines(layer) \subseteq Revealed(layer)

\* C3: the revealCell after which every non-mine cell of a playing layer is
\* revealed sets its status to won, leaves every mine flagged and unrevealed
\* with flagsUsed = mines, and removes the layer from the sequence.
C3_WinFlagsMinesAndRemovesLayer ==
    [][last' = "revealCell" => \A layerIndex \in LayerIndexes : \A cell \in Buttons(layerIndex) :
        (/\ Accepts(layerIndex, cell)
         /\ RevealCell(layerIndex, cell)
         /\ AllSafeRevealed(objs'[cell[1]])) =>
            LET after == objs'[cell[1]]
            IN  /\ after.status = "won"
                /\ Mines(after) = Flagged(after)
                /\ Mines(after) \cap Revealed(after) = {}
                /\ after.flagsUsed = after.mines
                /\ \A k \in 1..Len(layers') : layers'[k] # cell[1]
                /\ layers' = Splice(layers, layerIndex)]_vars

\* a layer won by revealing, out of the sequence, while another layer is
\* still in it
C3_Witness ==
    /\ last = "revealCell"
    /\ Len(layers) > 0
    /\ \E id \in Ids :
        /\ ~InSession(id)
        /\ objs[id].status = "won"
        /\ AllSafeRevealed(objs[id])
        /\ Cardinality(Revealed(objs[id])) > 1

(***************************************************************************)
(* The loss path.                                                          *)
(***************************************************************************)
\* C4: revealCell on a hidden, unflagged mine cell c of a playing layer sets
\* wasTriggered on c and on no other cell, sets the layer's status to lost,
\* reveals every mine cell of the layer and leaves isRevealed of every
\* non-mine cell of the layer as it was.
C4_LossRevealsMinesOnly ==
    [][last' = "revealCell" => \A layerIndex \in LayerIndexes : \A cell \in Buttons(layerIndex) :
        (Detonates(layerIndex, cell) /\ RevealCell(layerIndex, cell)) =>
            LET before == objs[cell[1]]
                after == objs'[cell[1]]
            IN  /\ CellAt(objs', cell).wasTriggered
                /\ \A id \in Ids : \A ref \in Refs(id) :
                    ref # cell => CellAt(objs', ref).wasTriggered
                                    = CellAt(objs, ref).wasTriggered
                /\ after.status = "lost"
                /\ Mines(after) \subseteq Revealed(after)
                /\ Revealed(after) \ Mines(after)
                        = Revealed(before) \ Mines(before)]_vars

\* a lost layer with two mines, one of them triggered, and a safe cell that
\* was revealed before the loss next to one that was not
C4_Witness ==
    /\ last = "revealCell"
    /\ \E id \in Ids :
        /\ objs[id].status = "lost"
        /\ Cardinality(Mines(objs[id])) = 2
        /\ Cardinality(Triggered(objs[id])) = 1
        /\ Mines(objs[id]) \subseteq Revealed(objs[id])
        /\ Revealed(objs[id]) \ Mines(objs[id]) # {}
        /\ Coords(objs[id]) \ Revealed(objs[id]) # {}

(***************************************************************************)
(* revealedCount.                                                          *)
(***************************************************************************)
\* C5 (as stated): revealedCount equals the number of cells with isRevealed,
\* mines included, also after the layer was lost and its mines revealed.
C5_RevealedCountCountsAllRevealed ==
    \A id \in Ids :
        objs[id].revealedCount = Cardinality(Revealed(objs[id]))

\* C5 (amended): revealedCount equals the number of revealed cells as long
\* as the layer is not lost; once it is lost, the mines revealed by the loss
\* are not counted: revealedCount is the number of revealed cells minus the
\* number of mine cells.
C5_RevealedCountExceptLossMines ==
    \A id \in Ids :
        IF objs[id].status = "lost"
        THEN objs[id].revealedCount
                = Cardinality(Revealed(objs[id])) - objs[id].mines
        ELSE objs[id].revealedCount = Cardinality(Revealed(objs[id]))

\* a lost layer with two mines whose count a flood had raised above one
C5_Witness ==
    \E id \in Ids :
        /\ objs[id].status = "lost"
        /\ objs[id].revealedCount > 1
        /\ objs[id].mines = 2

(***************************************************************************)
(* isRevealed is monotonic.                                                *)
(***************************************************************************)
\* C6: over revealCell and toggleFlag steps, a cell whose isRevealed is true
\* keeps it true.
C6_RevealedStaysRevealed ==
    [][Played =>
        \A id \in Ids : \A ref \in Refs(id) :
            CellAt(objs, ref).isRevealed => CellAt(objs', ref).isRevealed]_vars

\* revealed safe cells survive a loss that happened on their layer
C6_Witness ==
    /\ last = "revealCell"
    /\ \E id \in Ids :
        /\ objs[id].status = "lost"
        /\ Triggered(objs[id]) # {}
        /\ Cardinality(Revealed(objs[id]) \ Mines(objs[id])) >= 2

(***************************************************************************)
(* Flood-fill closure.                                                     *)
(***************************************************************************)
\* the cells of `members` reachable from the cells of `reached` by steps
\* between adjacent cells that stay inside `members`
RECURSIVE Grow(_, _)
Grow(reached, members) ==
    LET more == reached \cup
                {n \in members : \E k \in reached : Adjacent(k, n)}
    IN  IF more = reached THEN reached ELSE Grow(more, members)

\* the component of `members` that contains the cell at `start`, its
\* non-flagged, non-mine neighbours, minus what is already revealed
ClosureFrom(layer, start, members) ==
    LET component == Grow({start}, members)
    IN  {n \in Coords(layer) \ Revealed(layer) :
            \/ n \in component
            \/ /\ n \notin Flagged(layer)
               /\ n \notin Mines(layer)
               /\ \E k \in component : Adjacent(k, n)}

NewlyRevealed(id) == Revealed(objs'[id]) \ Revealed(objs[id])

\* revealCell(layerIndex, cell) floods from a zero-cell
FloodsFromZero(layerIndex, cell) ==
    /\ Floods(layerIndex, cell)
    /\ CellAt(objs, cell).adjacentMines = 0

\* C7 (as stated): revealCell on a hidden, unflagged zero-cell s reveals
\* exactly the connected component of zero-cells containing s, the zero-cells
\* already revealed being members of it, together with the non-flagged,
\* non-mine neighbours of its cells, minus the cells already revealed.  The
\* component is taken among the zero-cells that carry no flag, which is the
\* reading that agrees with flags being barriers.
C7_FloodRevealsZeroComponent ==
    [][last' = "revealCell" =>
        \A layerIndex \in LayerIndexes : \A cell \in Buttons(layerIndex) :
        (FloodsFromZero(layerIndex, cell) /\ RevealCell(layerIndex, cell)) =>
            LET before == objs[cell[1]]
            IN  NewlyRevealed(cell[1]) =
                    ClosureFrom(before, <<cell[2], cell[3]>>,
                                ZeroCells(before) \ Flagged(before))]_vars

\* C7 (amended): the component is taken among the zero-cells that are hidden
\* and unflagged when revealCell is called: the flood does not pass through a
\* zero-cell that was already revealed.  The cells newly revealed are exactly
\* that component and the non-flagged, non-mine, hidden neighbours of its
\* cells, and no cell of another layer changes isRevealed.
C7_FloodRevealsHiddenZeroComponent ==
    [][last' = "revealCell" =>
        \A layerIndex \in LayerIndexes : \A cell \in Buttons(layerIndex) :
        (FloodsFromZero(layerIndex, cell) /\ RevealCell(layerIndex, cell)) =>
            LET before == objs[cell[1]]
            IN  /\ NewlyRevealed(cell[1]) =
                    ClosureFrom(before, <<cell[2], cell[3]>>,
                        (ZeroCells(before) \ Flagged(before))
                            \ Revealed(before))
                /\ \A id \in Ids \ {cell[1]} :
                    Revealed(objs'[id]) = Revealed(objs[id])]_vars

\* a flood that went through two zero-cells and revealed a numbered border
\* cell, on a board where a diagonal neighbour exists and the game goes on
C7_Witness ==
    /\ last = "revealCell"
    /\ \E id \in Ids :
        /\ objs[id].status = "playing"
        /\ Len(objs[id].cells) = 2
        /\ Cardinality(Revealed(objs[id]) \cap ZeroCells(objs[id])) >= 2
        /\ Revealed(objs[id]) \ ZeroCells(objs[id]) # {}
        /\ Flagged(objs[id]) \ Mines(objs[id]) # {}

(***************************************************************************)
(* Flags are barriers.                                                     *)
(***************************************************************************)
\* C8: a cell that is flagged when revealCell is called is not revealed by
\* the flood, and the flood does not expand through it: every cell the flood
\* reveals, the start cell excepted, is adjacent to a zero-cell that carried
\* no flag and that this same flood revealed.
C8_FlaggedCellsBlockFlood ==
    [][last' = "revealCell" =>
        \A layerIndex \in LayerIndexes : \A cell \in Buttons(layerIndex) :
        (Floods(layerIndex, cell) /\ RevealCell(layerIndex, cell)) =>
            LET before == objs[cell[1]]
                after == objs'[cell[1]]
            IN  /\ Flagged(before) \cap Revealed(after) = {}
                /\ \A n \in NewlyRevealed(cell[1]) \ {<<cell[2], cell[3]>>} :
                    \E z \in NewlyRevealed(cell[1]) :
                        /\ Adjacent(z, n)
                        /\ z \in ZeroCells(before)
                        /\ z \notin Flagged(before)]_vars

\* a flagged, still hidden zero-cell next to a revealed zero-cell, with a
\* hidden unflagged safe neighbour that only it would have led to
C8_Witness ==
    /\ last = "revealCell"
    /\ \E id \in Ids :
        /\ objs[id].status = "playing"
        /\ \E f \in (Flagged(objs[id]) \cap ZeroCells(objs[id]))
                        \ Revealed(objs[id]) :
            /\ \E z \in Revealed(objs[id]) \cap ZeroCells(objs[id]) :
                    Adjacent(z, f)
            /\ \E n \in Coords(objs[id]) :
                /\ Adjacent(f, n)
                /\ n \notin Revealed(objs[id])
                /\ n \notin Flagged(objs[id])
                /\ n \notin Mines(objs[id])

(***************************************************************************)
(* Flag-complete clearing.                                                 *)
(***************************************************************************)
\* toggleFlag(layerIndex, cell) gets past its two guards
Toggles(layerIndex, cell) ==
    /\ HasLayer(layers, layerIndex)
    /\ objs[LayerRef(layers, layerIndex)].status = "playing"
    /\ ~CellAt(objs, cell).isRevealed

\* C9: the toggleFlag after which the flagged cells of a playing layer are
\* exactly its mine cells removes that layer from the sequence, whatever its
\* revealedCount.
C9_FlagCompleteRemovesLayer ==
    [][last' = "toggleFlag" =>
        \A layerIndex \in LayerIndexes : \A cell \in Buttons(layerIndex) :
        (/\ Toggles(layerIndex, cell)
         /\ ToggleFlag(layerIndex, cell)
         /\ Flagged(objs'[cell[1]]) = Mines(objs'[cell[1]])) =>
            /\ \A k \in 1..Len(layers') : layers'[k] # cell[1]
            /\ layers' = Splice(layers, layerIndex)]_vars

\* a layer with two mines removed by flagging alone: nothing revealed, still
\* playing
C9_Witness ==
    /\ last = "toggleFlag"
    /\ \E id \in Ids :
        /\ ~InSession(id)
        /\ objs[id].status = "playing"
        /\ objs[id].revealedCount = 0
        /\ objs[id].mines = 2
        /\ Flagged(objs[id]) = Mines(objs[id])

(***************************************************************************)
(* Toggling a flag twice.                                                  *)
(***************************************************************************)
FlagsUsedOf(heap) == [id \in DOMAIN heap |-> heap[id].flagsUsed]

Restored(cell) ==
    /\ CellAt(objs', cell).isFlagged = CellAt(objs, cell).isFlagged
    /\ FlagsUsedOf(objs') = FlagsUsedOf(objs)
    /\ layers' = layers

\* C10 (as stated): for a playing layer at index i and a hidden cell c of it,
\* toggleFlag(i, c) twice in a row restores c.isFlagged and every layer's
\* flagsUsed, and leaves the layer sequence as it was.
C10_ToggleTwiceRestores ==
    [][last' = "toggleFlagTwice" =>
        \A layerIndex \in LayerIndexes : \A cell \in Buttons(layerIndex) :
        (Toggles(layerIndex, cell) /\ ToggleFlagTwice(layerIndex, cell)) =>
            Restored(cell)]_vars

\* the first of the two calls clears the layer, which removes it
FirstToggleClears(layerIndex, cell) ==
    toggleFlag(Session, layerIndex, cell).layers # layers

\* C10 (amended): toggleFlag(i, c) twice in a row restores c.isFlagged, every
\* layer's flagsUsed and the layer sequence, provided the first call does not
\* clear the layer; when it does, the layer is removed by the first call and
\* is not back in the sequence after the second.
C10_ToggleTwiceRestoresUnlessCleared ==
    [][last' = "toggleFlagTwice" =>
        \A layerIndex \in LayerIndexes : \A cell \in Buttons(layerIndex) :
        (/\ Toggles(layerIndex, cell)
         /\ ToggleFlagTwice(layerIndex, cell)) =>
            IF FirstToggleClears(layerIndex, cell)
            THEN /\ layers' # layers
                 /\ \A k \in 1..Len(layers') : layers'[k] # cell[1]
            ELSE Restored(cell)]_vars

\* two toggles were made on a playing layer that holds a flag and has
\* revealed cells
C10_Witness ==
    /\ last = "toggleFlagTwice"
    /\ \E k \in 1..Len(layers) :
        /\ objs[layers[k]].status = "playing"
        /\ objs[layers[k]].flagsUsed = 1
        /\ objs[layers[k]].revealedCount > 0
        /\ Coords(objs[layers[k]])
                \ (Revealed(objs[layers[k]]) \cup Flagged(objs[layers[k]])) # {}

(***************************************************************************)
(* The calls that are refused.                                             *)
(***************************************************************************)
\* the session state proper: the layer sequence, every layer object with its
\* cells and counters, and the two session flags
game == <<layers, objs, hasConfigured, hasWon>>

\* C11 (as stated): toggleFlag on a revealed cell changes nothing, and the
\* cell's isFlagged is false afterwards; flagsUsed of its layer is unchanged
\* and no layer is removed.
C11_FlagOnRevealedStaysUnflagged ==
    [][last' = "toggleFlag" =>
        \A layerIndex \in LayerIndexes : \A cell \in Buttons(layerIndex) :
        (/\ HasLayer(layers, layerIndex)
         /\ CellAt(objs, cell).isRevealed
         /\ ToggleFlag(layerIndex, cell)) =>
            /\ CellAt(objs', cell).isFlagged = FALSE
            /\ objs'[cell[1]].flagsUsed = objs[cell[1]].flagsUsed
            /\ layers' = layers]_vars

\* C11 (amended): toggleFlag on a revealed cell leaves the whole session
\* state unchanged; the cell's isFlagged keeps its value, which is false
\* unless the cell is a mine of a lost layer that was flagged before the loss.
C11_FlagOnRevealedChangesNothing ==
    [][last' = "toggleFlag" =>
        \A layerIndex \in LayerIndexes : \A cell \in Buttons(layerIndex) :
        (/\ HasLayer(layers, layerIndex)
         /\ CellAt(objs, cell).isRevealed
         /\ ToggleFlag(layerIndex, cell)) =>
            /\ UNCHANGED game
            /\ CellAt(objs', cell).isFlagged =>
                    /\ CellAt(objs, cell).hasMine
                    /\ objs[cell[1]].status = "lost"]_vars

\* a toggle was made while a playing layer has a revealed cell, a hidden cell
\* and no flag: the call changed nothing
C11_Witness ==
    /\ last = "toggleFlag"
    /\ Len(layers) = 1 /\ Ids = {layers[1]}
    /\ objs[layers[1]].status = "playing"
    /\ Revealed(objs[layers[1]]) # {}
    /\ Flagged(objs[layers[1]]) = {}
    /\ Revealed(objs[layers[1]]) # Coords(objs[layers[1]])

\* the layer addressed by layerIndex is over: its status is won or lost
Finished(layerIndex) ==
    /\ HasLayer(layers, layerIndex)
    /\ objs[LayerRef(layers, layerIndex)].status \in {"won", "lost"}

\* C12: through the operations of a game, a layer whose status is won or lost
\* keeps that status, in the session or removed from it, and a revealCell or
\* toggleFlag addressed to such a layer leaves every cell, every counter and
\* the layer sequence unchanged.  (newGame discards the layer objects.)
C12_FinishedLayersAreFrozen ==
    [][Played =>
        /\ \A id \in Ids :
            objs[id].status \in {"won", "lost"} =>
                /\ id \in DOMAIN objs'
                /\ objs'[id].status = objs[id].status
        /\ \A layerIndex \in LayerIndexes : \A cell \in Buttons(layerIndex) :
            (/\ Finished(layerIndex)
             /\ RevealCell(layerIndex, cell) \/ ToggleFlag(layerIndex, cell)) =>
                UNCHANGED game]_vars

\* a toggle was made after a loss, while a lost layer of the session still
\* has a cell that is neither revealed nor flagged
C12_Witness ==
    /\ last = "toggleFlag"
    /\ \E k \in 1..Len(layers) :
        /\ objs[layers[k]].status = "lost"
        /\ Coords(objs[layers[k]])
                \ (Revealed(objs[layers[k]]) \cup Flagged(objs[layers[k]])) # {}

\* C13: revealCell on a cell that is flagged or already revealed leaves the
\* whole session state unchanged: no cell, revealedCount, flagsUsed, status
\* or layer-sequence change, also when the flagged cell holds a mine.
C13_RevealOnFlaggedOrRevealedChangesNothing ==
    [][last' = "revealCell" =>
        \A layerIndex \in LayerIndexes : \A cell \in Buttons(layerIndex) :
        (/\ HasLayer(layers, layerIndex)
         /\ CellAt(objs, cell).isFlagged \/ CellAt(objs, cell).isRevealed
         /\ RevealCell(layerIndex, cell)) =>
            UNCHANGED game]_vars

\* a reveal was made on the only layer, which is still playing and holds
\* flags on mines only and a revealed cell
C13_Witness ==
    /\ last = "revealCell"
    /\ Len(layers) = 1 /\ Ids = {layers[1]}
    /\ objs[layers[1]].status = "playing"
    /\ Flagged(objs[layers[1]]) # {}
    /\ Flagged(objs[layers[1]]) \subseteq Mines(objs[layers[1]])
    /\ Revealed(objs[layers[1]]) # {}

\* C14: in every reachable state, revealCell and toggleFlag called with a
\* layer index that addresses no layer of the current sequence (at or beyond
\* its length, the sequence possibly empty) return the session state they
\* were called in: nothing is changed.
C14_NoLayerAtIndexChangesNothing ==
    \A layerIndex \in LayerIndexes :
        ~HasLayer(layers, layerIndex) =>
            \A cell \in Buttons(layerIndex) :
                /\ revealCell(Session, layerIndex, cell) = Session
                /\ toggleFlag(Session, layerIndex, cell) = Session

\* every layer was removed while playing, that is by its flags, and the last
\* call is a reveal: it was made on the empty sequence
C14_Witness ==
    /\ last = "revealCell"
    /\ layers = <<>>
    /\ hasWon
    /\ Cardinality(Ids) >= 2
    /\ \A id \in Ids : objs[id].status = "playing"

(***************************************************************************)
(* Board generation.                                                       *)
(***************************************************************************)
\* C15: for every width w, height h and mine count m with 1 <= m <= w*h-1
\* and every outcome of the shuffle, the grid of createBoard(w, h, m) has w
\* columns and h rows, exactly m cells with hasMine, and in every non-mine
\* cell adjacentMines is the number of mine cells at Chebyshev distance 1.
C15_BoardHasMinesAndCounts ==
    last = "createBoard" =>
        \A id \in Ids :
            LET layer == objs[id]
            IN  /\ layer.mines >= 1 /\ layer.mines <= width * height - 1
                /\ Len(layer.cells) = height
                /\ \A y \in 1..height : Len(layer.cells[y]) = width
                /\ Cardinality(Mines(layer)) = layer.mines
                /\ \A c \in Coords(layer) \ Mines(layer) :
                    At(layer.cells, c[1], c[2]).adjacentMines =
                        Cardinality({n \in Mines(layer) : Adjacent(n, c)})

\* a 3 x 2 board with mines in two opposite corners was generated: the two
\* middle cells count both, one of them diagonally, the other corners one
C15_Witness ==
    /\ last = "createBoard"
    /\ width = 3 /\ height = 2
    /\ Mines(objs[0]) = {<<0, 0>>, <<2, 1>>}
    /\ At(objs[0].cells, 1, 0).adjacentMines = 2
    /\ At(objs[0].cells, 1, 1).adjacentMines = 2
    /\ At(objs[0].cells, 2, 0).adjacentMines = 1
    /\ At(objs[0].cells, 0, 1).adjacentMines = 1

\* C16: after newGame the session holds exactly depth layers, each with
\* status playing, revealedCount 0, flagsUsed 0, no revealed and no flagged
\* cell, and a mine count with 0 < mines < width * height that is the number
\* of its cells with hasMine.
C16_NewGameLayersAreFresh ==
    last = "startGame" =>
        /\ Len(layers) = depth
        /\ \A j, k \in 1..Len(layers) : j # k => layers[j] # layers[k]
        /\ \A k \in 1..Len(layers) :
            LET layer == objs[layers[k]]
            IN  /\ layer.status = "playing"
                /\ layer.revealedCount = 0
                /\ layer.flagsUsed = 0
                /\ Revealed(layer) = {}
                /\ Flagged(layer) = {}
                /\ Len(layer.cells) = height
                /\ \A y \in 1..height : Len(layer.cells[y]) = width
                /\ 0 < layer.mines /\ layer.mines < width * height
                /\ layer.mines = Cardinality(Mines(layer))

\* a game of three layers was started
C16_Witness ==
    /\ last = "startGame"
    /\ depth = 3
    /\ Len(layers) = 3
    /\ hasConfigured

(***************************************************************************)
(* The status of the session.                                              *)
(***************************************************************************)
\* the status as the three-way rule gives it
ThreeWayStatus ==
    IF hasWon THEN "won"
    ELSE IF \E k \in 1..Len(layers) : objs[layers[k]].status = "lost" THEN "lost"
    ELSE "playing"

\* a game is on: newGame has created layer objects and resetGame has not
\* dropped them
GameOn == DOMAIN objs # {}

\* C17 (as stated): in every state after a game is started, the state after
\* resetGame included, overallStatus is won if hasWon is set, otherwise lost
\* if a layer of the sequence is lost, otherwise playing.
C17_StatusIsThreeWayAfterStart ==
    (GameOn \/ last = "resetGame") => overallStatus = ThreeWayStatus

\* C17 (amended): while a game is on, that is from startGame until resetGame,
\* overallStatus is won if hasWon is set, otherwise lost if a layer of the
\* sequence is lost, otherwise playing; before the first startGame and after
\* resetGame it is idle.
C17_StatusIsThreeWayUntilReset ==
    IF GameOn THEN overallStatus = ThreeWayStatus ELSE overallStatus = "idle"

\* a reveal has just made a layer of a session of several layers lost, and
\* overallStatus is lost
C17_Witness ==
    /\ last = "revealCell"
    /\ Len(layers) >= 2
    /\ \E k \in 1..Len(layers) : Triggered(objs[layers[k]]) # {}
    /\ ~hasWon
    /\ overallStatus = "lost"

\* the layers created by newGame that are no longer in the sequence: each
\* was spliced out by checkLayerCleared
Removed == {id \in Ids : ~InSession(id)}

\* C18: after any sequence of revealCell and toggleFlag operations on a
\* started game, hasWon is true if and only if the layer sequence is empty,
\* every layer of the game having been removed by clearing.
C18_WonIffAllLayersCleared ==
    (GameOn /\ last \in {"startGame", "revealCell", "toggleFlag"}) =>
        (hasWon <=> (layers = <<>> /\ Removed = Ids))

\* the last layer of a game of several layers was just cleared by a flag
C18_Witness ==
    /\ last = "toggleFlag"
    /\ hasWon
    /\ layers = <<>>
    /\ Cardinality(Ids) >= 2
    /\ \E id \in Ids : objs[id].status = "won"
    /\ \E id \in Ids : objs[id].status = "playing"

(***************************************************************************)
(* Flags and the removal of layers.                                        *)
(***************************************************************************)
\* C19: in every reachable state, flagsUsed of every layer of the session is
\* the number of its cells with isFlagged, hence between 0 and width * height;
\* this covers the flags set by a win, the layers of a lost game and the
\* layers that remain when others were removed.
C19_FlagsUsedCountsFlaggedCells ==
    \A k \in 1..Len(layers) :
        LET layer == objs[layers[k]]
        IN  /\ layer.flagsUsed = Cardinality(Flagged(layer))
            /\ 0 <= layer.flagsUsed
            /\ layer.flagsUsed <= width * height

\* one layer was removed by a win, which flagged its mine, and a layer that
\* remains is lost and holds a flag
C19_Witness ==
    /\ \E id \in Removed :
        /\ objs[id].status = "won"
        /\ objs[id].flagsUsed = objs[id].mines
    /\ \E k \in 1..Len(layers) :
        /\ objs[layers[k]].status = "lost"
        /\ objs[layers[k]].flagsUsed >= 1

\* C20: in every reachable state and for every revealCell or toggleFlag call
\* the operation removes a layer from the sequence if and only if, at its
\* end, the set of flagged cells of the layer it addresses is the set of its
\* mine cells; the layer removed is that one and no other, and no such
\* operation lengthens the sequence.
C20_RemovedIffFlagsMatchMines ==
    \A layerIndex \in LayerIndexes : \A cell \in Buttons(layerIndex) :
        \A T \in {revealCell(Session, layerIndex, cell),
                  toggleFlag(Session, layerIndex, cell)} :
            /\ Len(T.layers) <= Len(layers)
            /\ Len(T.layers) >= Len(layers) - 1
            /\ IF /\ HasLayer(layers, layerIndex)
                  /\ Flagged(T.objs[LayerRef(layers, layerIndex)])
                        = Mines(T.objs[LayerRef(layers, layerIndex)])
               THEN T.layers = Splice(layers, layerIndex)
               ELSE T.layers = layers

\* a layer was removed from a game of several layers, and in a layer that
\* remains the only flag is on a cell without a mine: as many flags as mines,
\* and no removal
C20_Witness ==
    /\ last = "toggleFlag"
    /\ Removed # {}
    /\ \E k \in 1..Len(layers) :
        /\ objs[layers[k]].status = "playing"
        /\ objs[layers[k]].flagsUsed = objs[layers[k]].mines
        /\ Flagged(objs[layers[k]]) \cap Mines(objs[layers[k]]) = {}

(***************************************************************************)
(* A loss and the other layers.                                            *)
(***************************************************************************)
\* C21: in every reachable state, when revealCell detonates a mine on one
\* layer and toggleFlag is then called on a cell of another layer that was
\* playing before the detonation, the cell being hidden and unflagged, the
\* toggle takes effect: the cell is flagged and flagsUsed of its layer is
\* one more than before.
C21_FlagAfterLossElsewhereTakesEffect ==
    \A layerIndex \in LayerIndexes : \A cell \in Buttons(layerIndex) :
        Detonates(layerIndex, cell) =>
            LET afterLoss == revealCell(Session, layerIndex, cell)
            IN  \A k \in 1..Len(layers) : \A ref \in Refs(layers[k]) :
                    (/\ k - 1 # layerIndex
                     /\ objs[layers[k]].status = "playing"
                     /\ ~CellAt(afterLoss.objs, ref).isRevealed
                     /\ ~CellAt(afterLoss.objs, ref).isFlagged) =>
                        LET flagged == toggleFlag(afterLoss, k - 1, ref)
                        IN  /\ CellAt(flagged.objs, ref).isFlagged
                            /\ flagged.objs[layers[k]].flagsUsed =
                                    objs[layers[k]].flagsUsed + 1

\* C22: in every reachable state, when revealCell detonates a mine, in the
\* resulting state every mine cell of every layer of the session is
\* revealed, and a layer that was lost before the detonation is left exactly
\* as it was.
C22_LossRevealsMinesOfEveryLayer ==
    \A layerIndex \in LayerIndexes : \A cell \in Buttons(layerIndex) :
        Detonates(layerIndex, cell) =>
            LET T == revealCell(Session, layerIndex, cell)
            IN  /\ T.layers = layers
                /\ \A k \in 1..Len(layers) :
                    /\ Mines(T.objs[layers[k]]) \subseteq Revealed(T.objs[layers[k]])
                    /\ objs[layers[k]].status = "lost" =>
                            T.objs[layers[k]] = objs[layers[k]]

\* a mine was just detonated in a session of several layers: a layer without
\* a triggered cell has its mines revealed too
C22_Witness ==
    /\ last = "revealCell"
    /\ Len(layers) >= 2
    /\ \E k \in 1..Len(layers) : Triggered(objs[layers[k]]) # {}
    /\ \E k \in 1..Len(layers) :
        /\ Triggered(objs[layers[k]]) = {}
        /\ Mines(objs[layers[k]]) \subseteq Revealed(objs[layers[k]])
    /\ \A k \in 1..Len(layers) :
        Mines(objs[layers[k]]) \subseteq Revealed(objs[layers[k]])

\* C23: in every reachable state and for every layer, in the session or
\* removed from it, revealedCount is the number of its non-mine cells with
\* isRevealed; the mine cells revealed by a loss, the triggered one included,
\* are not counted.
C23_RevealedCountCountsSafeCells ==
    \A id \in Ids :
        objs[id].revealedCount =
            Cardinality(Revealed(objs[id]) \ Mines(objs[id]))

\* a lost layer with a triggered mine, every mine revealed and a revealed
\* non-mine cell: revealedCount is below the number of revealed cells
C23_Witness ==
    \E id \in Ids :
        /\ objs[id].status = "lost"
        /\ Triggered(objs[id]) # {}
        /\ Mines(objs[id]) \subseteq Revealed(objs[id])
        /\ objs[id].revealedCount >= 1
        /\ objs[id].revealedCount < Cardinality(Revealed(objs[id]))

(***************************************************************************)
(* The run of floodReveal.                                                 *)
(***************************************************************************)
NoDuplicates(seq) == \A i, j \in 1..Len(seq) : i # j => seq[i] # seq[j]

\* C24: in every reachable state every floodReveal run terminates within
\* width * height iterations of its loop: cut after that many iterations the
\* worklist is empty and the state is the one floodReveal returns; within the
\* run no cell is pushed twice and no cell is counted in revealedCount twice.
C24_FloodTerminatesWithinGridSize ==
    \A layerIndex \in LayerIndexes : \A cell \in Buttons(layerIndex) :
        Floods(layerIndex, cell) =>
            LET run == floodRun(objs, cell[1], cell, width * height)
            IN  /\ run.queue = <<>>
                /\ run.iterations <= width * height
                /\ run.iterations = Len(run.pushed)
                /\ NoDuplicates(run.pushed)
                /\ NoDuplicates(run.counted)
                /\ run.objs[cell[1]].revealedCount =
                        objs[cell[1]].revealedCount + Len(run.counted)
                /\ run.objs = floodReveal(objs, cell[1], cell)

\* a flood has run through four cells without a mine around them, each a
\* neighbour of several of the others and pushed once, on a layer of 3 x 3
\* cells that is still playing
C24_Witness ==
    /\ last = "revealCell"
    /\ width = 3 /\ height = 3
    /\ \E k \in 1..Len(layers) :
        /\ objs[layers[k]].status = "playing"
        /\ Cardinality(ZeroCells(objs[layers[k]])
                        \cap Revealed(objs[layers[k]])) >= 4

\* The same flood with other worklist disciplines.  drainStack takes the
\* cell pushed last (queue.pop() in the place of queue.shift()).
RECURSIVE drainStack(_, _)
drainStack(st, lid) ==
    IF st.queue = <<>> THEN st
    ELSE LET current == st.queue[Len(st.queue)]
         IN  drainStack(
                 visitNeighbors(
                     [st EXCEPT !.queue = SubSeq(@, 1, Len(@) - 1)], lid,
                     getNeighbors(st.objs[lid].cells, current[2], current[3])),
                 lid)

floodRevealStack(heap, lid, start) ==
    drainStack(enqueue([objs |-> heap, queue |-> <<>>], lid, start), lid).objs

Reverse(seq) == [k \in 1..Len(seq) |-> seq[Len(seq) + 1 - k]]

Without(seq, i) == [k \in 1..(Len(seq) - 1) |-> IF k < i THEN seq[k] ELSE seq[k + 1]]

\* every final heap of the flood when each iteration takes any cell of the
\* worklist and visits its neighbours in the order of getNeighbors or in the
\* reverse order
RECURSIVE drainAnyOrder(_, _)
drainAnyOrder(st, lid) ==
    IF st.queue = <<>> THEN {st.objs}
    ELSE UNION {
            LET current == st.queue[i]
                ns == getNeighbors(st.objs[lid].cells, current[2], current[3])
                rest == [st EXCEPT !.queue = Without(@, i)]
            IN  drainAnyOrder(visitNeighbors(rest, lid, ns), lid)
                    \cup drainAnyOrder(visitNeighbors(rest, lid, Reverse(ns)), lid)
            : i \in 1..Len(st.queue)}

floodRevealAnyOrder(heap, lid, start) ==
    drainAnyOrder(enqueue([objs |-> heap, queue |-> <<>>], lid, start), lid)

\* C25: in every reachable state and for every start cell, the heap after
\* floodReveal, hence the set of revealed cells and revealedCount, is the one
\* a last-in-first-out worklist gives, and the only one any choice of the
\* next cell and any of the two neighbour orders gives.
C25_FloodIndependentOfWorklistOrder ==
    \A layerIndex \in LayerIndexes : \A cell \in Buttons(layerIndex) :
        Floods(layerIndex, cell) =>
            /\ floodRevealStack(objs, cell[1], cell)
                    = floodReveal(objs, cell[1], cell)
            /\ floodRevealAnyOrder(objs, cell[1], cell)
                    = {floodReveal(objs, cell[1], cell)}

\* a flood has run on a layer of 3 x 3 cells through three cells without a
\* mine around them, two of them on the worklist together, and passed by a
\* flag next to one of them
C25_Witness ==
    /\ last = "revealCell"
    /\ width = 3 /\ height = 3
    /\ \E k \in 1..Len(layers) :
        LET layer == objs[layers[k]]
        IN  /\ layer.status = "playing"
            /\ Cardinality(ZeroCells(layer) \cap Revealed(layer)) >= 3
            /\ \E z \in ZeroCells(layer) \cap Revealed(layer) :
                \E f \in Flagged(layer) \ Revealed(layer) : Adjacent(z, f)

(***************************************************************************)
(* The statuses and marks of a layer.                                      *)
(***************************************************************************)
\* C26: a layer's status becomes won only by a revealCell after which every
\* non-mine cell of the layer is revealed; toggleFlag leaves every status as
\* it was, so a layer that a toggleFlag removes has status playing when it is
\* removed.
C26_WonOnlyByRevealingAllSafeCells ==
    [][/\ \A id \in DOMAIN objs' :
            (/\ objs'[id].status = "won"
             /\ id \in Ids => objs[id].status # "won") =>
                /\ last' = "revealCell"
                /\ id \in Ids
                /\ AllSafeRevealed(objs'[id])
       /\ last' = "toggleFlag" =>
            /\ \A id \in Ids : objs'[id].status = objs[id].status
            /\ \A k \in 1..Len(layers) :
                (\A j \in 1..Len(layers') : layers'[j] # layers[k]) =>
                    objs'[layers[k]].status = "playing"]_vars

\* a toggleFlag has just removed a layer, whose status is playing, from a
\* game in which another layer was removed by a win
C26_Witness ==
    /\ last = "toggleFlag"
    /\ \E id \in Removed :
        /\ objs[id].status = "playing"
        /\ Flagged(objs[id]) = Mines(objs[id])
        /\ ~AllSafeRevealed(objs[id])
    /\ \E id \in Removed :
        /\ objs[id].status = "won"
        /\ AllSafeRevealed(objs[id])

Misflagged(layer) ==
    {c \in Coords(layer) : At(layer.cells, c[1], c[2]).isMisflagged}

\* C27: in every reachable state a cell with isMisflagged is a flagged
\* non-mine cell of a lost layer; and the step by which a layer becomes lost
\* sets isMisflagged on exactly its flagged non-mine cells and changes
\* neither isFlagged of any of its cells nor its flagsUsed.
C27_MisflaggedAreWrongFlagsOfLostLayers ==
    /\ [](\A id \in Ids :
            /\ Misflagged(objs[id]) \subseteq Flagged(objs[id]) \ Mines(objs[id])
            /\ Misflagged(objs[id]) # {} => objs[id].status = "lost")
    /\ [][Played =>
            \A id \in Ids :
                (objs[id].status # "lost" /\ objs'[id].status = "lost") =>
                    /\ Misflagged(objs'[id])
                            = Flagged(objs[id]) \ Mines(objs[id])
                    /\ Flagged(objs'[id]) = Flagged(objs[id])
                    /\ objs'[id].flagsUsed = objs[id].flagsUsed]_vars

\* a lost layer holds a flag on a mine, which is not marked, and a flag on a
\* cell without a mine, which is
C27_Witness ==
    \E id \in Ids :
        /\ objs[id].status = "lost"
        /\ Flagged(objs[id]) \cap Mines(objs[id]) # {}
        /\ Misflagged(objs[id]) # {}
        /\ Misflagged(objs[id]) = Flagged(objs[id]) \ Mines(objs[id])

\* C28: in every reachable state each layer has at most one cell with
\* wasTriggered, such a cell is a revealed mine cell of a lost layer, and a
\* lost layer has exactly one.
C28_OneTriggeredCellPerLostLayer ==
    \A id \in Ids :
        /\ Cardinality(Triggered(objs[id])) <= 1
        /\ Triggered(objs[id]) \subseteq
                Mines(objs[id]) \cap Revealed(objs[id])
        /\ Triggered(objs[id]) # {} => objs[id].status = "lost"
        /\ objs[id].status = "lost" => Cardinality(Triggered(objs[id])) = 1

\* C29: the step that removes a cleared layer keeps the remaining layers in
\* their order, each layer after the removed one moving down by one position,
\* changes no field and no cell of a remaining layer, and leaves the ids of
\* the remaining layers as they were and pairwise distinct.
C29_RemovalKeepsTheOtherLayers ==
    [][(Played /\ layers' # layers) =>
        /\ \E i \in 0..(Len(layers) - 1) :
            /\ Len(layers') = Len(layers) - 1
            /\ \A k \in 1..Len(layers') :
                layers'[k] = IF k - 1 < i THEN layers[k] ELSE layers[k + 1]
        /\ \A k \in 1..Len(layers') :
            /\ objs'[layers'[k]] = objs[layers'[k]]
            /\ objs'[layers'[k]].id = layers'[k]
        /\ \A j, k \in 1..Len(layers') :
            j # k => objs'[layers'[j]].id # objs'[layers'[k]].id]_vars

\* the first of three layers was removed: the second and the third are at
\* indexes 0 and 1 with their ids, and one of them holds a flag
C29_Witness ==
    /\ last \in {"revealCell", "toggleFlag"}
    /\ Ids = {0, 1, 2}
    /\ layers = <<1, 2>>
    /\ objs[1].id = 1 /\ objs[2].id = 2
    /\ objs[1].flagsUsed + objs[2].flagsUsed >= 1

\* C30: in every reachable state no layer of the session's sequence,
\* whatever its status, has its set of flagged cells equal to its set of
\* mine cells: the operation that produces the match removes the layer.
C30_NoLayerInSessionHasFlagsOnMinesOnly ==
    \A k \in 1..Len(layers) :
        Flagged(objs[layers[k]]) # Mines(objs[layers[k]])

\* a reveal has won a layer, whose mines were flagged for it and which left
\* the sequence, while a layer with as many flags as mines, none of them on
\* a mine, is still in it
C30_Witness ==
    /\ \E id \in Removed :
        /\ objs[id].status = "won"
        /\ Flagged(objs[id]) = Mines(objs[id])
    /\ \E k \in 1..Len(layers) :
        /\ Cardinality(Flagged(objs[layers[k]])) = objs[layers[k]].mines
        /\ Flagged(objs[layers[k]]) \cap Mines(objs[layers[k]]) = {}

(***************************************************************************)
(* What stays true of the revealed cells and of a lost session.            *)
(***************************************************************************)
\* the pairs <<z, n>> of a layer: z is a revealed non-mine cell with
\* adjacentMines = 0 and n a neighbour of z that is neither revealed nor
\* flagged
Exposed(layer) ==
    {p \in (ZeroCells(layer) \cap Revealed(layer)) \X Coords(layer) :
        /\ Adjacent(p[1], p[2])
        /\ p[2] \notin Revealed(layer) \cup Flagged(layer)}

\* C31 (as stated): in every reachable state and every layer, each in-bounds
\* neighbour of a revealed non-mine cell with adjacentMines = 0 is revealed
\* or flagged, also after a flag that blocked a flood was removed.
C31_ZeroCellNeighboursRevealedOrFlagged ==
    \A id \in Ids : Exposed(objs[id]) = {}

\* C31 (amended): a neighbour of a revealed cell with adjacentMines = 0 is
\* revealed or flagged until a toggleFlag removes its flag: the only step
\* after which such a neighbour is newly hidden and unflagged is a toggleFlag
\* on that neighbour, flagged before the step, and revealCell never leaves
\* one behind for the cells it reveals.
C31_ZeroCellNeighboursHiddenOnlyAfterUnflag ==
    [][Played =>
        \A id \in Ids :
            objs'[id] # objs[id] =>
            \A p \in Exposed(objs'[id]) \ Exposed(objs[id]) :
                /\ last' = "toggleFlag"
                /\ p[2] \in Flagged(objs[id])
                /\ p[1] \in Revealed(objs[id])]_vars

\* a toggleFlag has removed the flag of a neighbour of a revealed cell with
\* adjacentMines = 0 on a playing layer: the neighbour is hidden, unflagged
\* and not a mine
C31_Witness ==
    /\ last = "toggleFlag"
    /\ \E k \in 1..Len(layers) :
        /\ objs[layers[k]].status = "playing"
        /\ objs[layers[k]].flagsUsed = 0
        /\ \E p \in Exposed(objs[layers[k]]) :
            p[2] \notin Mines(objs[layers[k]])

\* the layers of the sequence whose status is lost
LostLayers == {layers[k] : k \in {j \in 1..Len(layers) : objs[layers[j]].status = "lost"}}

\* C32: once overallStatus is lost, every revealCell and toggleFlag leaves it
\* lost: each lost layer stays in the sequence, so the sequence does not
\* become empty, and the win flag is not set.
C32_LostStaysLost ==
    [][(Played /\ overallStatus = "lost") =>
        /\ overallStatus' = "lost"
        /\ ~hasWon'
        /\ layers' # <<>>
        /\ LostLayers \subseteq LostLayers']_vars

\* a flag has been toggled in a session that is lost and whose lost layers
\* include one holding a flag on its mine and a flag on a safe cell: removing
\* the second would make its flags match its mines
C32_Witness ==
    /\ last = "toggleFlag"
    /\ overallStatus = "lost"
    /\ \E id \in LostLayers :
        /\ objs[id].mines = 1
        /\ objs[id].flagsUsed = 2
        /\ Mines(objs[id]) \subseteq Flagged(objs[id])

====
